---- MODULE Spec2Model ----
(***************************************************************************)
(* Model of PedigreeDPTable (src/src/pedigreedptable.cpp): the pedigree    *)
(* phasing dynamic program with sqrt(n) checkpointing of the projection    *)
(* and backtrace tables, the precomputed-partitioning shortcut and the     *)
(* result getters.                                                         *)
(*                                                                         *)
(* unsigned int values are 32 bits wide in the program.  They are kept     *)
(* exactly, as a pair <<hi, lo>> of two 16-bit limbs (value hi*2^16 + lo), *)
(* so that the wrap-around of the program's additions is the real one.     *)
(*                                                                         *)
(* The loops of the program are recursive operators that carry the loop's  *)
(* variables.  CHOOSE out \in {F(x) : x \in {e}} : TRUE is F(e) with e       *)
(* evaluated once; CHOOSE f \in {g} : f = f is the function g, tabulated.   *)
(***************************************************************************)
EXTENDS Integers, Sequences, FiniteSets, TLC

VARIABLES
    \* ---- constructor arguments (never changed after Init) ----
    columns,                  \* input_column_iterator: column -> sequence of active read ids
    num_reads,                \* read_set->size()
    ploidy,
    triple_count,             \* pedigree->triple_count()
    recombcost,               \* column -> unsigned int
    cost,                     \* PedigreeColumnCostComputer::get_cost: column -> index -> inheritance -> unsigned int
    precomputed_partitioning, \* NULL or read id -> partition
    \* ---- fields of PedigreeDPTable ----
    projection_column_table,
    index_backtrace_table,
    transmission_backtrace_table,
    indexers,
    index_path,
    optimal_score,
    optimal_score_index,
    optimal_transmission_value,
    previous_transmission_value,
    read_to_partition,
    input_column_iterator,    \* the column that get_next() returns next
    \* ---- position in the constructor and locals of compute_table ----
    pc,
    column_index,             \* forward loop variable; the column that raised when pc = "failed"
    bt_i,                     \* backward loop variable i
    bt_j,                     \* recovery loop variable j
    v,                        \* local v of compute_table
    prev_inheritance_value,
    heap,                     \* tables allocated with new and not yet deleted: <<kind, column>>
    computed,                 \* number of compute_column calls that passed the early return
    \* ---- out-parameters of the getters ----
    transmission_vector,
    output_read_set,          \* the super-reads the last call added to the caller's read sets
    partitioning,
    super_reads_calls         \* number of calls of get_super_reads

inputs == <<columns, num_reads, ploidy, triple_count, recombcost, cost,
            precomputed_partitioning>>
tables == <<projection_column_table, index_backtrace_table, transmission_backtrace_table>>
optimum == <<optimal_score, optimal_score_index, optimal_transmission_value,
             previous_transmission_value>>
locals == <<column_index, bt_i, bt_j, v, prev_inheritance_value>>
outs == <<transmission_vector, output_read_set, partitioning, super_reads_calls>>
vars == <<inputs, tables, indexers, index_path, optimum, read_to_partition,
          input_column_iterator, pc, locals, heap, computed, outs>>

\* a pointer is a sequence of at most one element; tables are held directly,
\* a table has at least one row
NULL == <<>>

----------------------------------------------------------------------------
(* Bounds of the model                                                      *)

MaxSmallCols == 2   \* columns of the runs over every read set, ploidy and pedigree
MaxLongCols == 9    \* columns of the runs of one read over all columns
MaxReads == 2       \* reads in the read set
MaxCost == 1        \* weight of a misplaced read in the cost computer
MaxPloidy == 3
MaxCalls == 2       \* calls of get_super_reads on one engine

\* the pedigrees of the model, by their number of triples: one individual, one trio
TripleCounts == {0, 1}

----------------------------------------------------------------------------
(* unsigned int: 32 bits as two 16-bit limbs                                *)

Limb == 2^16

\* the unsigned int with value x, x < 2^31
U(x) == <<x \div Limb, x % Limb>>

\* numeric_limits<unsigned int>::max(), the infinity sentinel
INF == <<Limb - 1, Limb - 1>>

\* a < b on unsigned int (and on exact naturals kept as <<hi, lo>>)
Less(a, b) == a[1] < b[1] \/ (a[1] = b[1] /\ a[2] < b[2])

\* exact sum and exact small multiple (hi is not reduced)
BigAdd(a, b) == <<a[1] + b[1] + ((a[2] + b[2]) \div Limb), (a[2] + b[2]) % Limb>>
BigMul(p, a) == <<p * a[1] + ((p * a[2]) \div Limb), (p * a[2]) % Limb>>

\* reduction modulo 2^32: what is left in an unsigned int
Wrap(a) == <<a[1] % Limb, a[2]>>

\* a + b and p * a as the program computes them in unsigned int
Add32(a, b) == Wrap(BigAdd(a, b))
Mul32(p, a) == Wrap(BigMul(p, a))

\* a / d and a % d for a small divisor d
Div32(a, d) == <<a[1] \div d, (((a[1] % d) * Limb) + a[2]) \div d>>
Mod32(a, d) == (((a[1] % d) * Limb) + a[2]) % d

\* value of an unsigned int that fits a model integer
ToNat(a) == a[1] * Limb + a[2]
IsSmall(a) == a[1] < 2^14

----------------------------------------------------------------------------
(* Helpers                                                                  *)

RECURSIVE Pow(_, _)
Pow(b, e) == IF e = 0 THEN 1 ELSE b * Pow(b, e - 1)

\* i ^ j on size_t
RECURSIVE Xor(_, _)
Xor(a, b) ==
    IF a = 0 /\ b = 0 THEN 0
    ELSE CHOOSE x \in {(((a % 2) + (b % 2)) % 2) + 2 * Xor(ha, hb) :
                          ha \in {a \div 2}, hb \in {b \div 2}} : TRUE

\* PedigreeDPTable::popcount
RECURSIVE popcount(_)
popcount(x) ==
    IF x = 0 THEN 0 ELSE CHOOSE count \in {(x % 2) + popcount(h) : h \in {x \div 2}} : TRUE

\* std::pow(4, pedigree->triple_count())
transmission_configurations == Pow(4, triple_count)

column_count == Len(columns)
Cols == 0 .. column_count - 1
Col(c) == columns[c + 1]
InhRange == 0 .. transmission_configurations - 1

Range(s) == {s[k] : k \in DOMAIN s}

----------------------------------------------------------------------------
(* ColumnIndexingScheme / ColumnIndexingIterator                            *)

\* ColumnIndexingScheme::column_size
column_size(c) == Pow(ploidy, Len(Col(c)))

\* reads of column c that are still active in column c+1 / were active in c-1
ForwardReads(c) == IF c + 1 < column_count THEN Range(Col(c)) \cap Range(Col(c + 1)) ELSE {}
BackwardReads(c) == IF c > 0 THEN Range(Col(c)) \cap Range(Col(c - 1)) ELSE {}

forward_projection_size(c) == Pow(ploidy, Cardinality(ForwardReads(c)))

\* the partitioning idx of the reads `reads` restricted to the reads in `keep`,
\* packed in base ploidy, first read least significant
RECURSIVE Project(_, _, _)
Project(idx, reads, keep) ==
    IF reads = <<>> THEN 0
    ELSE LET rest == Project(idx \div ploidy, Tail(reads), keep)
         IN  IF Head(reads) \in keep THEN (idx % ploidy) + ploidy * rest ELSE rest

get_forward_projection(c, idx) == Project(idx, Col(c), ForwardReads(c))
get_backward_projection(c, idx) == Project(idx, Col(c), BackwardReads(c))

\* the order in which the iterator of a column of m reads visits the indices:
\* reflected Gray code in base ploidy (one read changes partition per step)
RECURSIVE GrayOrder(_)
GrayOrder(m) ==
    IF m = 0 THEN <<0>>
    ELSE LET g == GrayOrder(m - 1)
             sz == Len(g)
         IN  [k \in 1 .. ploidy * sz |->
                LET d == (k - 1) \div sz
                    r == (k - 1) % sz
                IN  (IF d % 2 = 0 THEN g[r + 1] ELSE g[sz - r]) + d * Pow(ploidy, m - 1)]

IteratorOrder(c) == GrayOrder(Len(Col(c)))

----------------------------------------------------------------------------
(* PedigreeColumnCostComputer                                               *)

\* get_cost() after set_partitioning(idx) / the updates that lead to idx,
\* for the cost computer of inheritance pattern i in column c
get_cost(c, idx, i) == cost[c + 1][idx + 1][i + 1]

----------------------------------------------------------------------------
(* PedigreeDPTable::compute_column                                          *)

\* the table a column allocates: forward_projection_size x transmission_configurations,
\* every entry numeric_limits<unsigned int>::max()
NewTable(c) == [f \in 0 .. forward_projection_size(c) - 1 |-> [i \in InhRange |-> INF]]

\* variant: staying in an inheritance pattern is charged as one recombination
Candidate_ChargesStaying(previous_cost, current_cost, i, j, rc) ==
    CHOOSE out \in
        {IF Less(val, INF) THEN Add32(val, Mul32(popcount(x) + 1, rc)) ELSE val :
            val \in {IF Less(current_cost, INF) /\ Less(previous_cost, INF)
                     THEN Add32(current_cost, previous_cost) ELSE INF},
            x \in {Xor(i, j)}} : TRUE

\* aggregate cost of reaching inheritance i from inheritance j: steps 1 and 2
Candidate(previous_cost, current_cost, i, j, rc) ==
    CHOOSE out \in
        {IF Less(val, INF) THEN Add32(val, Mul32(popcount(x), rc)) ELSE val :
            val \in {IF Less(current_cost, INF) /\ Less(previous_cost, INF)
                     THEN Add32(current_cost, previous_cost)
                     ELSE INF},
            x \in {Xor(i, j)}} : TRUE

\* the loop over j: (min, min_index), starting from (max, 0), updated on val < min
RECURSIVE MinScan(_, _, _)
MinScan(vals, j, m) ==
    IF j >= transmission_configurations THEN m
    ELSE CHOOSE out \in
            {MinScan(vals, j + 1, nxt) :
                nxt \in {IF Less(vals[j], m.min)
                         THEN [min |-> vals[j], min_index |-> j] ELSE m}} : TRUE

\* the candidates of cell (idx, i) of column c, one per predecessor inheritance j
Candidates(c, idx, i, previous_projection_column, rc) ==
    [j \in InhRange |->
        Candidate(IF c > 0
                  THEN previous_projection_column[get_backward_projection(c, idx)][j]
                  ELSE U(0),
                  get_cost(c, idx, i), i, j, rc)]

MinRecomb(c, idx, i, previous_projection_column, rc) ==
    MinScan(Candidates(c, idx, i, previous_projection_column, rc), 0,
            [min |-> INF, min_index |-> 0])

\* variant: a step counts as valid only if every inheritance pattern is finite
FoundValid_EveryPattern(c, idx) == \A i \in InhRange : Less(get_cost(c, idx, i), INF)

\* found_valid_transmission_vector after the loop over i of one iterator step
FoundValid(c, idx) == \E i \in InhRange : Less(get_cost(c, idx, i), INF)

\* the loop over i of one iterator step: min and min_recomb_index[i] of every
\* inheritance pattern, mm[i + 1] being those of pattern i (mm[i + 1].min is
\* the entry (current_index, i) of the local dp_column)
RECURSIVE MinRecombAll(_, _, _, _, _, _)
MinRecombAll(c, idx, i, previous_projection_column, rc, mm) ==
    IF i >= transmission_configurations THEN mm
    ELSE CHOOSE out \in
            {MinRecombAll(c, idx, i + 1, previous_projection_column, rc, nxt) :
                nxt \in {Append(mm, MinRecomb(c, idx, i, previous_projection_column, rc))}} : TRUE

\* last column: the loop over i that updates the running optimum
RECURSIVE OptScan(_, _, _, _)
OptScan(mm, idx, i, o) ==
    IF i >= transmission_configurations THEN o
    ELSE CHOOSE out \in
            {OptScan(mm, idx, i + 1, nxt) :
                nxt \in {IF Less(mm[i + 1].min, o.optimal_score)
                         THEN [optimal_score |-> mm[i + 1].min,
                               optimal_score_index |-> idx,
                               optimal_transmission_value |-> i,
                               previous_transmission_value |-> mm[i + 1].min_index]
                         ELSE o}} : TRUE

\* variant: every iterator step overwrites the entries of its forward index
RECURSIVE RelaxScan_Overwrites(_, _, _, _, _)
RelaxScan_Overwrites(mm, idx, fwd, i, a) ==
    IF i >= transmission_configurations THEN a
    ELSE CHOOSE out \in
            {RelaxScan_Overwrites(mm, idx, fwd, i + 1, nxt) :
                nxt \in {[a EXCEPT
                            !.projection[fwd][i] = mm[i + 1].min,
                            !.index_backtrace[fwd][i] = U(idx),
                            !.transmission_backtrace[fwd][i] = U(mm[i + 1].min_index)]}} : TRUE

\* other columns: the loop over i that relaxes the forward projection and
\* the backtrace columns at forward_index fwd
RECURSIVE RelaxScan(_, _, _, _, _)
RelaxScan(mm, idx, fwd, i, a) ==
    IF i >= transmission_configurations THEN a
    ELSE CHOOSE out \in
            {RelaxScan(mm, idx, fwd, i + 1, nxt) :
                nxt \in {IF Less(mm[i + 1].min, a.projection[fwd][i])
                         THEN [a EXCEPT
                                 !.projection[fwd][i] = mm[i + 1].min,
                                 !.index_backtrace[fwd][i] = U(idx),
                                 !.transmission_backtrace[fwd][i] = U(mm[i + 1].min_index)]
                         ELSE a}} : TRUE

\* one step of the iterator walk of column c at partitioning idx, mm being
\* the minima of its loop over i
StepWith(c, idx, mm, a) ==
    IF ~FoundValid(c, idx) THEN [a EXCEPT !.thrown = TRUE]
    ELSE IF c + 1 >= column_count
    THEN [a EXCEPT !.opt = OptScan(mm, idx, 0, a.opt)]
    ELSE RelaxScan(mm, idx, get_forward_projection(c, idx), 0, a)

ColumnStep(c, idx, prev, rc, a) ==
    CHOOSE out \in
        {StepWith(c, idx, mm, a) : mm \in {MinRecombAll(c, idx, 0, prev, rc, <<>>)}} : TRUE

\* the iterator walk, stopped by the throw
RECURSIVE ColumnWalk(_, _, _, _, _, _)
ColumnWalk(c, order, k, prev, rc, a) ==
    IF k > Len(order) \/ a.thrown THEN a
    ELSE CHOOSE out \in
            {ColumnWalk(c, order, k + 1, prev, rc, nxt) :
                nxt \in {ColumnStep(c, order[k], prev, rc, a)}} : TRUE

\* compute_column(c) past the early return, with previous projection column
\* prev, recombination cost rc and running optimum opt: the tables it builds,
\* the optimum it leaves and whether it raised the Mendelian conflict
ColumnResult(c, prev, rc, opt) ==
    ColumnWalk(c, IteratorOrder(c), 1, prev, rc,
               [thrown |-> FALSE,
                projection |-> NewTable(c),
                index_backtrace |-> NewTable(c),
                transmission_backtrace |-> NewTable(c),
                opt |-> opt])

\* variant: every call of compute_column restarts the running optimum
Optimum_Restarted == [optimal_score |-> INF,
                      optimal_score_index |-> 0,
                      optimal_transmission_value |-> 0,
                      previous_transmission_value |-> 0]

\* the running optimum compute_column starts from: the members of the object
Optimum == [optimal_score |-> optimal_score,
            optimal_score_index |-> optimal_score_index,
            optimal_transmission_value |-> optimal_transmission_value,
            previous_transmission_value |-> previous_transmission_value]

\* previous_projection_column of column c
PreviousProjection(c) == IF c > 0 THEN projection_column_table[c - 1] ELSE NULL

compute_column(c) == ColumnResult(c, PreviousProjection(c), recombcost[c + 1], Optimum)

Kinds == {"projection", "index_backtrace", "transmission_backtrace"}
TablesOf(c) == {<<kd, c>> : kd \in Kinds}

\* the unsigned integer square root: (size_t)sqrt(column_count)
Isqrt(n) == CHOOSE r \in 0 .. n : r * r <= n /\ (r + 1) * (r + 1) > n

\* k of compute_table
Stride == Isqrt(column_count)

----------------------------------------------------------------------------
(* PedigreeDPTable::clear_table, compute_table                              *)

\* the iterator after jump_to_column(c) and get_next(), and after a get_next()
\* that has_next() allowed
GetNext(c) == IF c < column_count THEN c + 1 ELSE c

\* init(table, column_count): column_count null pointers
Cleared == [c \in Cols |-> NULL]

pedigree_size == 1 + 2 * triple_count

ZeroEntry == [index |-> U(0), inheritance_value |-> U(0)]

\* constructor without a precomputed partitioning: clear_table and the head
\* of compute_table, up to the forward loop
ComputeTableBegin ==
    /\ pc = "ctor"
    /\ precomputed_partitioning = NULL
    /\ projection_column_table' = Cleared
    /\ index_backtrace_table' = Cleared
    /\ transmission_backtrace_table' = Cleared
    /\ index_path' = <<>>
    /\ optimal_score_index' = 0
    /\ optimal_transmission_value' = 0
    /\ previous_transmission_value' = 0
    /\ IF column_count = 0
       THEN /\ optimal_score' = U(0)
            /\ indexers' = Cleared
            /\ pc' = "done"
            /\ UNCHANGED input_column_iterator
       ELSE /\ optimal_score' = INF
            /\ indexers' = [c \in Cols |-> IF c = 0 THEN <<"scheme">> ELSE NULL]
            /\ pc' = "forward"
            /\ input_column_iterator' = GetNext(0)
    /\ UNCHANGED <<inputs, read_to_partition, locals, heap, computed, outs>>

\* the tables after compute_column(c) stored its result res
Stored(tab, c, t) == IF c + 1 < column_count THEN [tab EXCEPT ![c] = t] ELSE tab

\* variant: the forward loop keeps every column
DeletesPrevious_Never(c) == FALSE

\* variant: the test is on the column just computed
DeletesPrevious_OffByOne(c) == Stride > 1 /\ c > 0 /\ (c % Stride) # 0

\* variant: the checkpoints are the columns after the multiples of the stride
DeletesPrevious_Shifted(c) == Stride > 1 /\ c > 0 /\ ((c - 1) % Stride) # 1

\* forward loop: is column c - 1 deleted after column c was computed
DeletesPrevious(c) == Stride > 1 /\ c > 0 /\ ((c - 1) % Stride) # 0

Dropped(tab, c) == IF DeletesPrevious(c) THEN [tab EXCEPT ![c - 1] = NULL] ELSE tab

\* one iteration of the forward loop that does not raise; after the last
\* column, the seed of the backtrace
ForwardColumn ==
    /\ pc = "forward"
    /\ LET c == column_index
           res == compute_column(c)
           last == c + 1 >= column_count
           seed == [index |-> U(res.opt.optimal_score_index),
                    inheritance_value |-> U(res.opt.optimal_transmission_value)]
       IN  /\ ~res.thrown
           /\ indexers' = IF last THEN indexers ELSE [indexers EXCEPT ![c + 1] = <<"scheme">>]
           /\ projection_column_table' =
                  Dropped(Stored(projection_column_table, c, res.projection), c)
           /\ index_backtrace_table' =
                  Dropped(Stored(index_backtrace_table, c, res.index_backtrace), c)
           /\ transmission_backtrace_table' =
                  Dropped(Stored(transmission_backtrace_table, c, res.transmission_backtrace), c)
           /\ heap' = (heap \cup (IF last THEN {} ELSE TablesOf(c)))
                        \ (IF DeletesPrevious(c) THEN TablesOf(c - 1) ELSE {})
           /\ optimal_score' = res.opt.optimal_score
           /\ optimal_score_index' = res.opt.optimal_score_index
           /\ optimal_transmission_value' = res.opt.optimal_transmission_value
           /\ previous_transmission_value' = res.opt.previous_transmission_value
           /\ computed' = computed + 1
           /\ column_index' = c + 1
           /\ input_column_iterator' = GetNext(input_column_iterator)
           /\ IF last
              THEN /\ index_path' = [k \in 1 .. column_count |->
                                        IF k = column_count THEN seed ELSE ZeroEntry]
                   /\ v' = seed
                   /\ prev_inheritance_value' = U(res.opt.previous_transmission_value)
                   /\ bt_i' = column_count - 1
                   /\ pc' = IF column_count - 1 > 0 THEN "backward" ELSE "done"
              ELSE /\ pc' = "forward"
                   /\ UNCHANGED <<index_path, v, prev_inheritance_value, bt_i>>
    /\ UNCHANGED <<inputs, read_to_partition, bt_j, outs>>

\* compute_column raises "Error: Mendelian conflict" out of the constructor:
\* the destructor of the object does not run, the tables allocated for the
\* column are local raw pointers, the retained ones are raw pointers in vectors
MendelianConflict ==
    /\ pc = "forward"
    /\ LET c == column_index
           res == compute_column(c)
       IN  /\ res.thrown
           /\ indexers' = IF c + 1 >= column_count THEN indexers
                          ELSE [indexers EXCEPT ![c + 1] = <<"scheme">>]
           /\ heap' = heap \cup (IF c + 1 < column_count THEN TablesOf(c) ELSE {})
           /\ optimal_score' = res.opt.optimal_score
           /\ optimal_score_index' = res.opt.optimal_score_index
           /\ optimal_transmission_value' = res.opt.optimal_transmission_value
           /\ previous_transmission_value' = res.opt.previous_transmission_value
           /\ computed' = computed + 1
           /\ input_column_iterator' = GetNext(input_column_iterator)
           /\ pc' = "failed"
    /\ UNCHANGED <<inputs, tables, index_path, read_to_partition, locals, outs>>

\* backward loop at i: the tables of column i - 1 are missing, recovery starts
\* at the column after the last stored one
RecoverBegin ==
    /\ pc = "backward"
    /\ projection_column_table[bt_i - 1] = NULL
    /\ LET j == ((bt_i - 1) \div Stride) * Stride
       IN  IF projection_column_table[j] = NULL
           THEN /\ pc' = "assert_failed"
                /\ UNCHANGED bt_j
           ELSE /\ pc' = "recover"
                /\ bt_j' = j + 1
    /\ UNCHANGED <<inputs, tables, indexers, index_path, optimum, read_to_partition,
                   input_column_iterator, column_index, bt_i, v, prev_inheritance_value,
                   heap, computed, outs>>

\* recovery: compute_column(j) for one j < i
RecoverColumn ==
    /\ pc = "recover"
    /\ bt_j < bt_i
    /\ LET c == bt_j
       IN  IF projection_column_table[c] # NULL
           THEN /\ pc' = "recover"
                /\ UNCHANGED <<tables, optimum, heap, computed, column_index,
                               input_column_iterator>>
           ELSE IF indexers[c] = NULL
           THEN /\ pc' = "assert_failed"
                /\ UNCHANGED <<tables, optimum, heap, computed, column_index,
                               input_column_iterator>>
           ELSE IF c > 0 /\ projection_column_table[c - 1] = NULL
           THEN \* previous_projection_column is a null pointer
                /\ pc' = "ub_recover"
                /\ UNCHANGED <<tables, optimum, heap, computed, column_index,
                               input_column_iterator>>
           ELSE LET res == compute_column(c)
                IN  /\ computed' = computed + 1
                    /\ input_column_iterator' = GetNext(c)
                    /\ heap' = heap \cup (IF c + 1 < column_count THEN TablesOf(c) ELSE {})
                    /\ optimal_score' = res.opt.optimal_score
                    /\ optimal_score_index' = res.opt.optimal_score_index
                    /\ optimal_transmission_value' = res.opt.optimal_transmission_value
                    /\ previous_transmission_value' = res.opt.previous_transmission_value
                    /\ IF res.thrown
                       THEN /\ pc' = "failed"
                            /\ column_index' = c
                            /\ UNCHANGED tables
                       ELSE /\ pc' = "recover"
                            /\ projection_column_table' =
                                   Stored(projection_column_table, c, res.projection)
                            /\ index_backtrace_table' =
                                   Stored(index_backtrace_table, c, res.index_backtrace)
                            /\ transmission_backtrace_table' =
                                   Stored(transmission_backtrace_table, c,
                                          res.transmission_backtrace)
                            /\ UNCHANGED column_index
    /\ bt_j' = bt_j + 1
    /\ UNCHANGED <<inputs, indexers, index_path, read_to_partition, bt_i, v,
                   prev_inheritance_value, outs>>

\* variant: the block released is the one before column i, still to be traversed
ReleasedBlock_Ahead(i) ==
    IF i % Stride = 0
    THEN {j \in Cols : j >= i - Stride /\ j < i /\ j < column_count - 1}
    ELSE {}

\* the columns released after the backward step at i: the block that starts at i
ReleasedBlock(i) ==
    IF i % Stride = 0
    THEN {j \in Cols : j >= i /\ j < i + Stride /\ j < column_count - 1}
    ELSE {}

Released(tab, i) == [c \in Cols |-> IF c \in ReleasedBlock(i) THEN NULL ELSE tab[c]]

\* backward loop at i, once the tables of column i - 1 are there: the step of
\* the backtrace and the release of a traversed block
BacktraceStep ==
    /\ \/ pc = "backward" /\ projection_column_table[bt_i - 1] # NULL
       \/ pc = "recover" /\ bt_j >= bt_i
    /\ LET i == bt_i
           inrange == /\ IsSmall(v.index)
                      /\ ToNat(v.index) < column_size(i)
                      /\ IsSmall(prev_inheritance_value)
                      /\ ToNat(prev_inheritance_value) < transmission_configurations
       IN  IF projection_column_table[i - 1] = NULL \/ ~inrange
           THEN \* null table or index outside the table: undefined behaviour
                /\ pc' = "ub_backtrace"
                /\ UNCHANGED <<tables, index_path, heap, bt_i, v, prev_inheritance_value>>
           ELSE LET backtrace_index == get_backward_projection(i, ToNat(v.index))
                    p == ToNat(prev_inheritance_value)
                    nv == [index |-> index_backtrace_table[i - 1][backtrace_index][p],
                           inheritance_value |-> prev_inheritance_value]
                IN  /\ v' = nv
                    /\ prev_inheritance_value' =
                           transmission_backtrace_table[i - 1][backtrace_index][p]
                    /\ index_path' = [index_path EXCEPT ![i] = nv]
                    /\ IF \E j \in ReleasedBlock(i) : projection_column_table[j] = NULL
                       THEN /\ pc' = "assert_failed"
                            /\ UNCHANGED <<tables, heap, bt_i>>
                       ELSE /\ projection_column_table' =
                                   Released(projection_column_table, i)
                            /\ index_backtrace_table' = Released(index_backtrace_table, i)
                            /\ transmission_backtrace_table' =
                                   Released(transmission_backtrace_table, i)
                            /\ heap' = heap \ UNION {TablesOf(j) : j \in ReleasedBlock(i)}
                            /\ bt_i' = i - 1
                            /\ pc' = IF i - 1 > 0 THEN "backward" ELSE "done"
    /\ UNCHANGED <<inputs, indexers, optimum, read_to_partition, input_column_iterator,
                   column_index, bt_j, computed, outs>>

----------------------------------------------------------------------------
(* PedigreeDPTable::set_index_path                                          *)

\* the partitioning of the reads of a column under read_to_partition
RECURSIVE PackColumn(_, _)
PackColumn(reads, r2p) ==
    IF reads = <<>> THEN 0
    ELSE r2p[Head(reads) + 1] + ploidy * PackColumn(Tail(reads), r2p)

\* optimal_score += cost_computer.get_cost(), column after column
RECURSIVE SumPath(_, _, _)
SumPath(c, r2p, acc) ==
    IF c >= column_count THEN acc
    ELSE SumPath(c + 1, r2p, Add32(acc, get_cost(c, PackColumn(Col(c), r2p), 0)))

\* variant: the score keeps the value clear_table gave it
ScoreOfPath_NotReset(r2p) == SumPath(0, r2p, INF)

\* optimal_score of set_index_path: set to 0, then the costs are added
ScoreOfPath(r2p) == SumPath(0, r2p, U(0))

\* constructor with a precomputed partitioning
SetIndexPath ==
    /\ pc = "ctor"
    /\ precomputed_partitioning # NULL
    /\ read_to_partition' = precomputed_partitioning[1]
    /\ projection_column_table' = Cleared
    /\ index_backtrace_table' = Cleared
    /\ transmission_backtrace_table' = Cleared
    /\ indexers' = Cleared
    /\ optimal_score_index' = 0
    /\ optimal_transmission_value' = 0
    /\ previous_transmission_value' = 0
    /\ index_path' = [k \in 1 .. column_count |->
                        [index |-> U(PackColumn(Col(k - 1), precomputed_partitioning[1])),
                         inheritance_value |-> U(0)]]
    /\ optimal_score' = ScoreOfPath(precomputed_partitioning[1])
    /\ input_column_iterator' = column_count
    /\ pc' = "done"
    /\ UNCHANGED <<inputs, locals, heap, computed, outs>>

----------------------------------------------------------------------------
(* the getters and the destructor                                           *)

get_optimal_score == optimal_score

\* variant: the values are appended to what the caller's vector holds
ClearedVector_Kept == transmission_vector

\* transmission_vector->clear()
ClearedVector == <<>>

\* variant: the columns are read from where the iterator was left
SuperReadsStart_NoJump == input_column_iterator

\* input_column_iterator.jump_to_column(0)
SuperReadsStart == 0

\* the number of iterations of while (input_column_iterator.has_next())
SuperReadsColumns == IF SuperReadsStart < column_count
                     THEN column_count - SuperReadsStart ELSE 0

\* what iteration i adds to the super-read j of individual k: the allele that
\* the cost computer of the column read and of index_path[i] reports for (k, j),
\* at positions->at(i)
SuperEntry(i, k, j) == [position |-> i, column |-> Col(SuperReadsStart + i),
                        individual |-> k, haplotype |-> j, of |-> index_path[i + 1]]

\* pedigree_partitions[v.inheritance_value] is an element of the vector, for
\* every v of index_path; set_partitioning takes v.index as it is
PathUsable == \A c \in Cols :
    /\ IsSmall(index_path[c + 1].inheritance_value)
    /\ ToNat(index_path[c + 1].inheritance_value) < transmission_configurations

\* the caller passes one empty read set per individual
get_super_reads ==
    /\ pc = "done"
    /\ super_reads_calls < MaxCalls
    /\ IF index_backtrace_table = <<>> /\ SuperReadsStart < column_count
       THEN \* assert(!input_column_iterator.has_next())
            /\ pc' = "assert_failed"
            /\ UNCHANGED <<transmission_vector, output_read_set, input_column_iterator,
                           super_reads_calls>>
       ELSE IF ~PathUsable
       THEN \* pedigree_partitions[] read outside the vector
            /\ pc' = "ub_super_reads"
            /\ UNCHANGED <<transmission_vector, output_read_set, input_column_iterator,
                           super_reads_calls>>
       ELSE /\ transmission_vector' =
                   ClearedVector
                       \o [i \in 1 .. SuperReadsColumns |-> index_path[i].inheritance_value]
            /\ output_read_set' =
                   [k \in 0 .. pedigree_size - 1 |->
                       [j \in 0 .. ploidy - 1 |->
                           [e \in 1 .. SuperReadsColumns |-> SuperEntry(e - 1, k, j)]]]
            /\ input_column_iterator' = IF SuperReadsStart < column_count
                                        THEN column_count ELSE SuperReadsStart
            /\ super_reads_calls' = super_reads_calls + 1
            /\ pc' = "done"
    /\ UNCHANGED <<inputs, tables, indexers, index_path, optimum, read_to_partition,
                   locals, heap, computed, partitioning>>

\* the loop over the reads of column c: read j gets digit j of index
RECURSIVE AssignColumn(_, _, _)
AssignColumn(reads, index, part) ==
    IF reads = <<>> THEN part
    ELSE AssignColumn(Tail(reads), Div32(index, ploidy),
                      [part EXCEPT ![Head(reads) + 1] = Mod32(index, ploidy)])

RECURSIVE AssignPath(_, _)
AssignPath(c, part) ==
    IF c >= Len(index_path) THEN part
    ELSE AssignPath(c + 1, AssignColumn(Col(c), index_path[c + 1].index, part))

get_optimal_partitioning ==
    /\ pc = "done"
    /\ IF \E c \in 0 .. Len(index_path) - 1 : indexers[c] = NULL
       THEN \* indexers[i]->get_read_ids() through a null pointer
            /\ pc' = "ub_partitioning"
            /\ UNCHANGED partitioning
       ELSE /\ partitioning' = <<AssignPath(0, [r \in 1 .. num_reads |-> 0])>>
            /\ pc' = "done"
    /\ UNCHANGED <<inputs, tables, indexers, index_path, optimum, read_to_partition,
                   input_column_iterator, locals, heap, computed, transmission_vector,
                   output_read_set, super_reads_calls>>

\* ~PedigreeDPTable: init(table, 0) deletes every table still held
Destructor ==
    /\ pc = "done"
    /\ pc' = "destroyed"
    /\ projection_column_table' = <<>>
    /\ index_backtrace_table' = <<>>
    /\ transmission_backtrace_table' = <<>>
    /\ indexers' = <<>>
    /\ heap' = {}
    /\ UNCHANGED <<inputs, index_path, optimum, read_to_partition, input_column_iterator,
                   locals, computed, outs>>

----------------------------------------------------------------------------
(* The inputs of a run                                                      *)

\* read sets over n columns: every read covers an interval of columns, read ids
\* are in the order of reassignReadIds, every column is covered
Intervals(n) == {iv \in (0 .. n - 1) \X (0 .. n - 1) : iv[1] <= iv[2]}

Active(rs, c) == {r \in DOMAIN rs : rs[r][1] <= c /\ c <= rs[r][2]}

RECURSIVE SortedSeq(_)
SortedSeq(S) == IF S = {} THEN <<>>
                ELSE LET m == CHOOSE x \in S : \A y \in S : x <= y
                     IN  <<m>> \o SortedSeq(S \ {m})

ReadSets(n) ==
    IF n = 0 THEN {<<>>}
    ELSE {rs \in UNION {[1 .. nr -> Intervals(n)] : nr \in 1 .. MaxReads} :
            /\ \A r \in DOMAIN rs : r > 1 =>
                  \/ rs[r - 1][1] < rs[r][1]
                  \/ rs[r - 1][1] = rs[r][1] /\ rs[r - 1][2] <= rs[r][2]
            /\ \A c \in 0 .. n - 1 :
                  Active(rs, c) # {}}

\* the read sets whose reads cover all n columns
FullReadSets(n) ==
    IF n = 0 THEN {<<>>} ELSE {[r \in 1 .. nr |-> <<0, n - 1>>] : nr \in 1 .. MaxReads}

\* the columns of a read set; read ids start at 0
ColumnsOf(rs, n) == [k \in 1 .. n |-> SortedSeq({r - 1 : r \in Active(rs, k - 1)})]

\* values of recombcost: free, the unit, and the largest unsigned int
RecombValues == {U(0), U(1), INF}

InfKinds == {"none", "all", "first", "others", "apart"}

\* the favourite cells of the columns repeat with period 2
FavPeriod(n) == IF n < 2 THEN n ELSE 2
Len1(f) == Cardinality(DOMAIN f)

\* the cost computer of a column.  get_cost() is the least weighted
\* disagreement over the allele assignments consistent with the genotype
\* constraints under the inheritance pattern, and the sentinel if none is
\* consistent: whether it is the sentinel depends on the column and on the
\* inheritance pattern, not on the partitioning of the reads.  In column
\* infcol no pattern ("all"), every pattern but the first ("first") or only
\* the others ("others") have a consistent assignment; a misplaced
\* partitioning costs MaxCost, a misplaced inheritance pattern 1.  With
\* "apart" only the last pattern is consistent in column infcol and only the
\* first in column infcol + 1, and the reads of the two columns weigh nothing
CostOf(c, idx, i, fi, fh, infcol, infkind) ==
    IF infkind = "apart" /\ c = infcol
    THEN (IF i = transmission_configurations - 1 THEN U(1) ELSE INF)
    ELSE IF infkind = "apart" /\ c = infcol + 1
    THEN (IF i = 0 THEN U(0) ELSE INF)
    ELSE IF /\ c = infcol
       /\ \/ infkind = "all"
          \/ infkind = "first" /\ i = 0
          \/ infkind = "others" /\ i # 0
    THEN INF
    ELSE U((IF idx = fi[c % Len1(fi)] * (column_size(c) - 1) THEN 0 ELSE MaxCost)
           + (IF i = fh[c % Len1(fh)] * (transmission_configurations - 1) THEN 0 ELSE 1))

Init ==
    \E pl \in 2 .. MaxPloidy, tc \in TripleCounts, n \in 0 .. MaxLongCols :
      /\ pl = 2 \/ (tc = 0 /\ n <= MaxSmallCols)
      /\ \E rs \in (IF n > MaxSmallCols THEN {<<<<0, n - 1>>>>}
                    ELSE IF tc > 0 THEN FullReadSets(n) ELSE ReadSets(n)) :
           /\ ploidy = pl
           /\ triple_count = tc
           /\ columns = ColumnsOf(rs, n)
           /\ num_reads = Len(rs)
           /\ precomputed_partitioning \in
                 {NULL} \cup (IF n <= MaxSmallCols /\ (rs \in FullReadSets(n) \/ pl = 2)
                              THEN {<<pp>> : pp \in [1 .. Len(rs) -> 0 .. pl - 1]}
                              ELSE {})
           /\ \E hot \in {0, n - 1}, hv \in RecombValues :
                 /\ (tc = 0 \/ n > MaxSmallCols \/ precomputed_partitioning # NULL
                        \/ hv = U(1)) => hot = 0 /\ hv = U(1)
                 /\ hot >= 0
                 /\ recombcost = [k \in 1 .. n |-> IF k - 1 = hot THEN hv ELSE U(1)]
                 /\ \E fi \in [0 .. FavPeriod(n) - 1 -> {0, 1}],
                       fh \in [0 .. FavPeriod(n) - 1 -> {0, 1}],
                       infcol \in (0 .. n - 1) \cup {0}, infkind \in InfKinds :
                       /\ tc = 0 => infkind \in {"none", "all"} /\ \A c \in DOMAIN fh : fh[c] = 0
                       /\ (infkind = "none" \/ precomputed_partitioning # NULL) => infcol = 0
                       /\ (infkind # "none" \/ hv # U(1) \/ precomputed_partitioning # NULL) =>
                              \A c \in DOMAIN fi : fi[c] = 0 /\ fh[c] = 0
                       /\ n > MaxSmallCols =>
                              infkind = "none" \/ (tc > 0 /\ infkind = "first" /\ infcol = 1)
                       /\ infkind = "apart" =>
                              infcol = n - 2 /\ infcol >= 0 /\ hot = n - 1 /\ hv = INF
                       /\ (n > MaxSmallCols /\ tc > 0) => \A c \in DOMAIN fi : fi[c] = 0
                       /\ pl > 2 => \A c \in DOMAIN fi : fi[c] = fi[0]
                       /\ cost = [k \in 1 .. n |->
                                    [x \in 1 .. column_size(k - 1) |->
                                       [y \in 1 .. transmission_configurations |->
                                          CostOf(k - 1, x - 1, y - 1, fi, fh, infcol, infkind)]]]
      /\ projection_column_table = <<>>
      /\ index_backtrace_table = <<>>
      /\ transmission_backtrace_table = <<>>
      /\ indexers = <<>>
      /\ index_path = <<>>
      /\ optimal_score = U(0)
      /\ optimal_score_index = 0
      /\ optimal_transmission_value = 0
      /\ previous_transmission_value = 0
      /\ read_to_partition = <<>>
      /\ pc = "ctor"
      /\ column_index = 0
      /\ bt_i = 0
      /\ bt_j = 0
      /\ v = ZeroEntry
      /\ prev_inheritance_value = U(0)
      /\ heap = {}
      /\ computed = 0
      /\ transmission_vector = <<>>
      /\ output_read_set = <<>>
      /\ partitioning = NULL
      /\ input_column_iterator = 0
      /\ super_reads_calls = 0

Next ==
    \/ ComputeTableBegin
    \/ ForwardColumn
    \/ MendelianConflict
    \/ RecoverBegin
    \/ RecoverColumn
    \/ BacktraceStep
    \/ SetIndexPath
    \/ get_super_reads
    \/ get_optimal_partitioning
    \/ Destructor

Spec == Init /\ [][Next]_vars

----------------------------------------------------------------------------
(* Exact costs: naturals with a top element, for stating what a score means *)

\* larger than every exact sum of the model
ExInf == <<2^30, 0>>

\* an unsigned int cost read as an exact cost: the sentinel is infinity
Ex(u) == IF u = INF THEN ExInf ELSE u

ExAdd(a, b) == IF a = ExInf \/ b = ExInf THEN ExInf ELSE BigAdd(a, b)

ExMin(S) == CHOOSE m \in S : \A x \in S : ~Less(x, m)

ColumnCells(c) == (0 .. column_size(c) - 1) \X InhRange

\* cells of column c + 1 whose backward projection is the forward projection of idx
Successors(c, idx) ==
    {cell \in ColumnCells(c + 1) :
        get_backward_projection(c + 1, cell[1]) = get_forward_projection(c, idx)}

\* the least exact cost of a sequence of cells that starts in a cell of column
\* c and runs to the last column, column costs plus recombinations, for every
\* cell of column c
RECURSIVE ExMinFrom(_)
ExMinFrom(c) ==
    IF c + 1 >= column_count
    THEN CHOOSE f \in {[cell \in ColumnCells(c) |-> Ex(get_cost(c, cell[1], cell[2]))]} : f = f
    ELSE CHOOSE f \in
            {[cell \in ColumnCells(c) |->
                ExAdd(Ex(get_cost(c, cell[1], cell[2])),
                      ExMin({ExAdd(BigMul(popcount(Xor(cell[2], succ[2])), recombcost[c + 2]),
                                   rest[succ]) :
                             succ \in Successors(c, cell[1])}))] :
                rest \in {ExMinFrom(c + 1)}} : f = f

\* the minimum over all sequences of cells with matching projections
MinPathCost == ExMin({ExMinFrom(0)[cell] : cell \in ColumnCells(0)})

Swept == precomputed_partitioning = NULL /\ pc \in {"backward", "recover", "done"}

\* C1: after a forward sweep that raised no Mendelian conflict,
\* get_optimal_score() is the minimum over all sequences of cells with matching
\* projections of the sum of the column costs and the recombination costs
C1_ScoreIsMinimum ==
    (Swept /\ column_count > 0) => Ex(get_optimal_score) = MinPathCost

\* the same, for the runs in which recombcost stays far from the width of unsigned int
C1_ScoreIsMinimumNoWrap ==
    (Swept /\ column_count > 0 /\ \A k \in DOMAIN recombcost : recombcost[k] # INF)
        => Ex(get_optimal_score) = MinPathCost

\* columns whose compute_column call of the forward sweep returned
Completed(c) == precomputed_partitioning = NULL /\ pc # "ctor" /\ c < column_index

AllInfinite(c) == \A cell \in ColumnCells(c) : get_cost(c, cell[1], cell[2]) = INF

\* C2: the sweep raises the Mendelian conflict in column c exactly when every
\* (partitioning, inheritance) cell of column c has infinite cost: a column
\* that raised has no finite cell, a column that was passed has one
C2_ConflictIffAllInfinite ==
    /\ pc = "failed" => AllInfinite(column_index)
    /\ \A c \in Cols : Completed(c) => ~AllInfinite(c)

\* a conflict raised in a later column, after columns with sentinel cells passed
C2_Witness ==
    /\ pc = "failed"
    /\ column_index >= 1
    /\ transmission_configurations > 1

\* C3: once construction has completed without raising, get_optimal_score()
\* is not the infinity sentinel, on the sweep and on the precomputed path
C3_ScoreNeverInfinite == pc = "done" => get_optimal_score # INF

\* C4: after a Mendelian conflict no table allocated by the run is live
C4_FailureReleasesTables == pc = "failed" => heap = {}

----------------------------------------------------------------------------
(* The reference run: the forward sweep that retains the tables of every    *)
(* column, and the backtrace over them                                      *)

ClearedOptimum == [optimal_score |-> INF, optimal_score_index |-> 0,
                   optimal_transmission_value |-> 0, previous_transmission_value |-> 0]

\* the columns 0 .. column_count - 1 of a forward sweep under the recombination
\* costs rcs, none released: done holds the columns before c
RECURSIVE RefSweep(_, _, _)
RefSweep(c, rcs, done) ==
    IF c >= column_count THEN done
    ELSE CHOOSE out \in
            {RefSweep(c + 1, rcs, Append(done, res)) :
                res \in {ColumnResult(c, IF c > 0 THEN done[c].projection ELSE NULL,
                                      rcs[c + 1], ClearedOptimum)}} : TRUE

RefRun(rcs) == RefSweep(0, rcs, <<>>)

\* the optimum the sweep under rcs leaves after its last column
RefOptimum(rcs) == RefRun(rcs)[column_count].opt

\* one step of the backtrace over the columns ref, into column i - 1
RefStep(ref, i, vv, p) ==
    LET b == get_backward_projection(i, ToNat(vv.index))
    IN  [v |-> [index |-> ref[i].index_backtrace[b][ToNat(p)], inheritance_value |-> p],
         p |-> ref[i].transmission_backtrace[b][ToNat(p)]]

\* the backtrace over the columns ref from column i down, vv and p being v and
\* prev_inheritance_value
RECURSIVE RefBacktrace(_, _, _, _, _)
RefBacktrace(ref, i, vv, p, path) ==
    IF i = 0 THEN path
    ELSE CHOOSE out \in
            {RefBacktrace(ref, i - 1, st.v, st.p, [path EXCEPT ![i] = st.v]) :
                st \in {RefStep(ref, i, vv, p)}} : TRUE

RefPath(ref) ==
    LET o == ref[column_count].opt
        seed == [index |-> U(o.optimal_score_index),
                 inheritance_value |-> U(o.optimal_transmission_value)]
    IN  RefBacktrace(ref, column_count - 1, seed, U(o.previous_transmission_value),
                     [k \in 1 .. column_count |-> IF k = column_count THEN seed ELSE ZeroEntry])

InSweep == precomputed_partitioning = NULL
           /\ pc \in {"forward", "backward", "recover", "done", "assert_failed"}

\* the engine as the constructor leaves it: no getter was called on it yet (the
\* getters change none of the fields the constructor wrote)
NoGetterCalled == partitioning = NULL /\ super_reads_calls = 0

\* C5: the checkpointed engine gives the index_path and the optimal_score of
\* the run that retains every column, its recovery never misses a checkpoint,
\* and every table it holds, kept or recomputed, is the table of that run
C5_CheckpointedEqualsReference ==
    (InSweep /\ column_count > 0 /\ NoGetterCalled) =>
        \A ref \in {RefRun(recombcost)} :
            /\ pc # "assert_failed"
            /\ \A c \in Cols : projection_column_table[c] # NULL =>
                  /\ projection_column_table[c] = ref[c + 1].projection
                  /\ index_backtrace_table[c] = ref[c + 1].index_backtrace
                  /\ transmission_backtrace_table[c] = ref[c + 1].transmission_backtrace
            /\ pc = "done" =>
                  /\ optimal_score = ref[column_count].opt.optimal_score
                  /\ index_path = RefPath(ref)

\* a run over more than one checkpoint block that recomputed columns and finished
C5_Witness ==
    /\ precomputed_partitioning = NULL
    /\ pc = "done"
    /\ Stride > 2
    /\ computed > column_count
    /\ \E c \in Cols : index_path[c + 1].index # U(0)

\* C6: get_optimal_partitioning() does not fail and returns num_reads values,
\* each in [0, ploidy)
C6_PartitioningInRange ==
    /\ pc # "ub_partitioning"
    /\ partitioning # NULL =>
          /\ Len(partitioning[1]) = num_reads
          /\ \A r \in 1 .. num_reads : partitioning[1][r] \in 0 .. ploidy - 1

\* the exact sum of the costs of the precomputed partitioning under pattern 0
RECURSIVE ExSumPath(_)
ExSumPath(c) ==
    IF c >= column_count THEN U(0)
    ELSE ExAdd(Ex(get_cost(c, PackColumn(Col(c), precomputed_partitioning[1]), 0)),
               ExSumPath(c + 1))

\* C7: with a precomputed partitioning, index_path[c] is the base-ploidy
\* packing of the partitions of the reads of column c with inheritance 0, the
\* score is the sum of the costs of these cells, and no table is allocated
C7_PrecomputedPath ==
    (precomputed_partitioning # NULL /\ pc = "done") =>
        /\ Len(index_path) = column_count
        /\ \A c \in Cols :
              /\ index_path[c + 1].index =
                     U(PackColumn(Col(c), precomputed_partitioning[1]))
              /\ index_path[c + 1].inheritance_value = U(0)
        /\ Ex(get_optimal_score) = ExSumPath(0)
        /\ heap = {}
        /\ \A c \in Cols : projection_column_table[c] = NULL
                           /\ index_backtrace_table[c] = NULL
                           /\ transmission_backtrace_table[c] = NULL

\* the same, for the runs in which every cell of the path has a finite cost
C7_PrecomputedPathFiniteCosts ==
    (precomputed_partitioning # NULL
        /\ \A c \in Cols :
               get_cost(c, PackColumn(Col(c), precomputed_partitioning[1]), 0) # INF)
        => C7_PrecomputedPath

\* C8: every candidate the column about to be computed forms is infinite when
\* the previous or the current cost is, and otherwise not below the exact sum
\* previous + current + popcount(i XOR j) * recombcost[c]
C8_CandidateSaturates ==
    (pc = "forward") =>
        \A cell \in ColumnCells(column_index), j \in InhRange :
            LET c == column_index
                previous_cost == IF c > 0
                    THEN projection_column_table[c - 1][get_backward_projection(c, cell[1])][j]
                    ELSE U(0)
                current_cost == get_cost(c, cell[1], cell[2])
                val == Candidate(previous_cost, current_cost, cell[2], j, recombcost[c + 1])
            IN  IF previous_cost = INF \/ current_cost = INF
                THEN val = INF
                ELSE ~Less(Ex(val),
                           BigAdd(BigAdd(previous_cost, current_cost),
                                  BigMul(popcount(Xor(cell[2], j)), recombcost[c + 1])))

\* C9: raising one recombcost[c'] does not lower the optimal score
C9_MonotoneInRecombcost ==
    (precomputed_partitioning = NULL /\ pc = "done" /\ column_count > 0) =>
        \A k \in DOMAIN recombcost, r \in RecombValues :
            Less(recombcost[k], r) =>
                ~Less(RefOptimum([recombcost EXCEPT ![k] = r]).optimal_score,
                      get_optimal_score)

\* the same, for recombination costs far from the width of unsigned int
C9_MonotoneInRecombcostNoWrap ==
    (precomputed_partitioning = NULL /\ pc = "done" /\ column_count > 0) =>
        \A k \in DOMAIN recombcost, r \in RecombValues \ {INF} :
            Less(recombcost[k], r) =>
                ~Less(RefOptimum([recombcost EXCEPT ![k] = r]).optimal_score,
                      get_optimal_score)

SuperReadsCalled == DOMAIN output_read_set # {}

\* C10: without columns the score is 0 on either construction path, no column
\* is computed, and get_super_reads leaves the transmission vector empty and
\* gives super-reads without entries
C10_EmptyInput ==
    column_count = 0 =>
        /\ computed = 0
        /\ pc \in {"ctor", "done", "destroyed"}
        /\ pc # "ctor" => get_optimal_score = U(0)
        /\ SuperReadsCalled =>
              /\ transmission_vector = <<>>
              /\ \A k \in DOMAIN output_read_set : \A j \in DOMAIN output_read_set[k] :
                    output_read_set[k][j] = <<>>

\* get_super_reads was called on an engine built from no columns, with a
\* precomputed partitioning
C10_Witness ==
    /\ column_count = 0
    /\ pc = "done"
    /\ precomputed_partitioning # NULL
    /\ SuperReadsCalled

\* C11: after a successful construction over n columns get_super_reads stays
\* inside defined behaviour, leaves exactly n values in transmission_vector,
\* the c-th being index_path[c].inheritance_value, and adds exactly ploidy
\* super-reads per individual, each with exactly one entry per column
C11_SuperReadsShape ==
    /\ pc # "ub_super_reads"
    /\ SuperReadsCalled =>
          /\ pc \in {"done", "destroyed", "ub_partitioning"}
          /\ DOMAIN transmission_vector = 1 .. column_count
          /\ \A c \in 1 .. column_count :
                transmission_vector[c] = index_path[c].inheritance_value
          /\ DOMAIN output_read_set = 0 .. pedigree_size - 1
          /\ \A k \in DOMAIN output_read_set :
                /\ DOMAIN output_read_set[k] = 0 .. ploidy - 1
                /\ \A j \in DOMAIN output_read_set[k] :
                      /\ DOMAIN output_read_set[k][j] = 1 .. column_count
                      /\ \A e \in 1 .. column_count :
                            /\ output_read_set[k][j][e].position = e - 1
                            /\ output_read_set[k][j][e].column = Col(e - 1)

\* get_super_reads was called on a trio swept over several columns, and the
\* transmission vector names more than one inheritance pattern
C11_Witness ==
    /\ SuperReadsCalled
    /\ Swept
    /\ triple_count = 1
    /\ column_count >= 2
    /\ \E c, d \in DOMAIN transmission_vector : transmission_vector[c] # transmission_vector[d]

\* C12: a call of get_super_reads that follows another one on the same engine
\* leaves the same transmission vector and the same super-reads per individual
C12_SuperReadsRepeatable ==
    [][(super_reads_calls >= 1 /\ super_reads_calls' = super_reads_calls + 1) =>
          /\ transmission_vector' = transmission_vector
          /\ output_read_set' = output_read_set]_vars

\* get_super_reads was called twice on an engine whose backward sweep had
\* recomputed columns, which leaves the iterator inside the input
C12_Witness ==
    /\ super_reads_calls >= 2
    /\ Swept
    /\ column_count >= 4
    /\ transmission_vector # <<>>

\* the recombcost sequences an engine is compared under: the constant
\* sequences and its own sequence with the cost of one column changed
RecombChoices ==
    {[k \in 1 .. column_count |-> r] : r \in RecombValues}
        \cup {[recombcost EXCEPT ![hot] = r] : hot \in 1 .. column_count, r \in RecombValues}

\* C13: without a trio there is one inheritance pattern, and the optimal score,
\* index_path and the transmission vector that get_super_reads returns are
\* those of the sweep under every other recombcost sequence
C13_SingleIndividualIgnoresRecombcost ==
    (triple_count = 0 /\ precomputed_partitioning = NULL /\ pc = "done" /\ column_count > 0
        /\ partitioning = NULL /\ super_reads_calls = 1) =>
        /\ transmission_configurations = 1
        /\ \A rcs \in RecombChoices :
              \A ref \in {RefRun(rcs)} : \A path \in {RefPath(ref)} :
                  /\ get_optimal_score = ref[column_count].opt.optimal_score
                  /\ index_path = path
                  /\ transmission_vector =
                         [k \in 1 .. column_count |-> path[k].inheritance_value]

\* a single individual swept over several columns with a path that is not the
\* all-zero one, and its transmission vector fetched
C13_Witness ==
    /\ triple_count = 0
    /\ precomputed_partitioning = NULL
    /\ pc = "done"
    /\ column_count >= 2
    /\ SuperReadsCalled
    /\ \E c \in Cols : index_path[c + 1].index # U(0)

\* dp_column of column c, computed from the projection prev of the column
\* before: cell (idx, i) with its minimum and the candidates it was taken over
DpColumn(c, prev) ==
    CHOOSE f \in {[idx \in 0 .. column_size(c) - 1 |-> [i \in InhRange |->
                     [min |-> MinRecomb(c, idx, i, prev, recombcost[c + 1]).min,
                      vals |-> Candidates(c, idx, i, prev, recombcost[c + 1])]]]} : f = f

\* C14: in the tables of a column that is not the last one, the projection
\* entry (fwd, i) is the minimum of dp_column (idx, i) over the idx that project
\* forward to fwd; when it is finite, index_backtrace names such an idx whose dp
\* value is that minimum and transmission_backtrace a predecessor inheritance
\* whose candidate is that value; otherwise the three entries hold the initial
\* value.  Checked for every column of which the engine holds the tables
\* together with the projection of the column before
C14_ProjectionIsMinimum ==
    (InSweep /\ column_count > 0 /\ NoGetterCalled) =>
        \A c \in Cols :
            (projection_column_table[c] # NULL
                /\ (c > 0 => projection_column_table[c - 1] # NULL)) =>
                \A dp \in {DpColumn(c, PreviousProjection(c))} :
                    \A fwd \in 0 .. forward_projection_size(c) - 1, i \in InhRange :
                        LET cells == {idx \in DOMAIN dp : get_forward_projection(c, idx) = fwd}
                            p == projection_column_table[c][fwd][i]
                            ib == index_backtrace_table[c][fwd][i]
                            tb == transmission_backtrace_table[c][fwd][i]
                        IN  /\ c + 1 < column_count
                            /\ \A idx \in cells : ~Less(dp[idx][i].min, p)
                            /\ IF Less(p, INF)
                               THEN /\ IsSmall(ib) /\ ToNat(ib) \in cells
                                    /\ dp[ToNat(ib)][i].min = p
                                    /\ IsSmall(tb) /\ ToNat(tb) \in InhRange
                                    /\ dp[ToNat(ib)][i].vals[ToNat(tb)] = p
                               ELSE ib = INF /\ tb = INF

\* the engine holds the tables of a trio column after the first one and the
\* projection before it; the column has a finite entry that comes from a
\* partitioning other than the first and from another inheritance pattern, and
\* an entry left at the initial value
C14_Witness ==
    /\ InSweep
    /\ triple_count = 1
    /\ \E c \in Cols :
          /\ c > 0
          /\ projection_column_table[c] # NULL
          /\ projection_column_table[c - 1] # NULL
          /\ \E fwd \in DOMAIN projection_column_table[c], i \in InhRange :
                /\ Less(projection_column_table[c][fwd][i], INF)
                /\ index_backtrace_table[c][fwd][i] # U(0)
                /\ transmission_backtrace_table[c][fwd][i] # U(i)
          /\ \E fwd \in DOMAIN projection_column_table[c], i \in InhRange :
                projection_column_table[c][fwd][i] = INF

\* every element of index_path is a cell of its column
PathInRange == \A c \in Cols :
    /\ IsSmall(index_path[c + 1].index)
    /\ ToNat(index_path[c + 1].index) < column_size(c)
    /\ IsSmall(index_path[c + 1].inheritance_value)
    /\ ToNat(index_path[c + 1].inheritance_value) < transmission_configurations

\* the exact cost of index_path from column c on: the column costs of its cells
\* and, from column 1 on, the recombinations between consecutive cells
RECURSIVE ExPathFrom(_)
ExPathFrom(c) ==
    IF c >= column_count THEN U(0)
    ELSE LET idx == ToNat(index_path[c + 1].index)
             inh == ToNat(index_path[c + 1].inheritance_value)
             recomb == IF c = 0 THEN U(0)
                       ELSE BigMul(popcount(Xor(inh, ToNat(index_path[c].inheritance_value))),
                                   recombcost[c + 1])
         IN  ExAdd(ExAdd(Ex(get_cost(c, idx, inh)), recomb), ExPathFrom(c + 1))

\* C15: after the backward sweep index_path ends in the optimum of the last
\* column, the backward projection of every cell of the path is the forward
\* projection of the cell before it, and the column costs of the cells plus
\* the recombination costs between them add up to optimal_score
C15_PathIsWitness ==
    (precomputed_partitioning = NULL /\ pc = "done" /\ column_count > 0) =>
        /\ Len(index_path) = column_count
        /\ index_path[column_count] =
               [index |-> U(optimal_score_index),
                inheritance_value |-> U(optimal_transmission_value)]
        /\ PathInRange
        /\ \A c \in 1 .. column_count - 1 :
              get_backward_projection(c, ToNat(index_path[c + 1].index))
                  = get_forward_projection(c - 1, ToNat(index_path[c].index))
        /\ Ex(get_optimal_score) = ExPathFrom(0)

\* the same, for the runs in which recombcost stays far from the width of unsigned int
C15_PathIsWitnessNoWrap ==
    (\A k \in DOMAIN recombcost : recombcost[k] # INF) => C15_PathIsWitness

\* the three tables of column c are allocated and held
LiveColumn(c) ==
    /\ projection_column_table[c] # NULL
    /\ index_backtrace_table[c] # NULL
    /\ transmission_backtrace_table[c] # NULL

\* C16: no table is read while it is not live: compute_column(c) with c > 0, in
\* the forward sweep and in a recovery, finds the projection of column c - 1;
\* the backward step at i finds the backtrace tables of column i - 1; the
\* checkpoint is live when a recovery starts and every table of a block is
\* live when the block is released
C16_TablesLiveWhenRead ==
    InSweep =>
        /\ pc # "assert_failed"
        /\ (pc = "forward" /\ column_index > 0) => LiveColumn(column_index - 1)
        /\ (pc = "recover" /\ bt_j < bt_i /\ bt_j > 0 /\ projection_column_table[bt_j] = NULL)
              => LiveColumn(bt_j - 1)
        /\ (pc = "backward" /\ projection_column_table[bt_i - 1] = NULL)
              => LiveColumn(((bt_i - 1) \div Stride) * Stride)
        /\ ((pc = "backward" /\ projection_column_table[bt_i - 1] # NULL)
               \/ (pc = "recover" /\ bt_j >= bt_i))
              => /\ LiveColumn(bt_i - 1)
                 /\ \A j \in ReleasedBlock(bt_i) : LiveColumn(j)

\* a recovery of a trio is past its first column: the column it computes next
\* reads a table that the recovery itself put back
C16_Witness ==
    /\ precomputed_partitioning = NULL
    /\ pc = "recover"
    /\ triple_count = 1
    /\ bt_j < bt_i
    /\ bt_j > ((bt_i - 1) \div Stride) * Stride + 1
    /\ projection_column_table[bt_j] = NULL

\* column c has none of the three tables
NoTables(c) ==
    /\ projection_column_table[c] = NULL
    /\ index_backtrace_table[c] = NULL
    /\ transmission_backtrace_table[c] = NULL

\* the forward sweep has computed its last column and no backward step was taken
ForwardCompleted ==
    /\ precomputed_partitioning = NULL
    /\ column_count > 0
    /\ \/ pc \in {"backward", "recover"} /\ bt_i = column_count - 1
       \/ pc = "done" /\ column_count = 1

\* a checkpoint of the forward sweep: a multiple of the stride, every column
\* when the stride is at most 1
Checkpoint(c) == Stride <= 1 \/ c % Stride = 0

\* C17: while the forward sweep is about to compute column m, the columns with
\* tables are the checkpoints below m and column m - 1, which is released only
\* once column m is computed and only if it is no checkpoint; when the sweep
\* completes, the live columns are exactly the checkpoints up to n - 2; the
\* last column never has tables; the released tables are deleted
C17_ForwardCheckpoints ==
    (precomputed_partitioning = NULL
        /\ pc \in {"forward", "backward", "recover", "done", "failed"}) =>
        /\ pc = "forward" =>
              \A c \in Cols :
                 IF c < column_index /\ c <= column_count - 2
                    /\ (Checkpoint(c) \/ c = column_index - 1)
                 THEN LiveColumn(c) ELSE NoTables(c)
        /\ (ForwardCompleted /\ pc # "recover") =>
              \A c \in Cols :
                 IF c <= column_count - 2 /\ Checkpoint(c)
                 THEN LiveColumn(c) ELSE NoTables(c)
        /\ column_count > 0 => NoTables(column_count - 1)
        /\ pc \in {"forward", "backward"} =>
              heap = UNION {TablesOf(c) : c \in {d \in Cols : LiveColumn(d)}}

\* a forward sweep with a stride above 1 has completed: a checkpoint other than
\* column 0 is live and a column between checkpoints was released
C17_Witness ==
    /\ ForwardCompleted
    /\ pc = "backward"
    /\ Stride >= 2
    /\ \E c \in Cols : c > 0 /\ LiveColumn(c)
    /\ \E c \in Cols : c <= column_count - 2 /\ NoTables(c)

\* the columns of which a table is allocated and not deleted
LiveColumns == {c \in Cols : TablesOf(c) \cap heap # {}}

\* C18: at every moment of the forward and the backward sweep over n columns
\* at most 3 * floor(sqrt(n)) columns have live tables
C18_LiveColumnsBound ==
    /\ Cardinality(LiveColumns) <= 3 * Isqrt(column_count)
    /\ pc \in {"forward", "backward", "recover", "done"} =>
          LiveColumns = {c \in Cols : ~NoTables(c)}

\* a recovery of the backward sweep has put a block back while the block
\* above it is not released yet: checkpoints and two blocks are live
C18_Witness ==
    /\ precomputed_partitioning = NULL
    /\ pc = "recover"
    /\ Stride >= 2
    /\ Cardinality(LiveColumns) >= 2 * Stride + 1

\* C19: when the backward sweep has finished, no column has a live
\* projection, index-backtrace or transmission-backtrace table
C19_BackwardReleasesAll ==
    (precomputed_partitioning = NULL /\ pc = "done") =>
        /\ heap = {}
        /\ \A c \in Cols : NoTables(c)

\* what the finished backward sweep leaves instead: the tables of the block
\* that starts at column 0
C19_FirstBlockStays ==
    (precomputed_partitioning = NULL /\ pc = "done") =>
        /\ LiveColumns = {c \in Cols : c < Stride /\ c <= column_count - 2}
        /\ \A c \in Cols : IF c \in LiveColumns THEN LiveColumn(c) ELSE NoTables(c)

\* the backward step at bt_i is about to read the backtrace tables of column bt_i - 1
AtBacktrace ==
    /\ precomputed_partitioning = NULL
    /\ \/ pc = "backward" /\ projection_column_table[bt_i - 1] # NULL
       \/ pc = "recover" /\ bt_j >= bt_i

\* C20: a cell of infinite cost is never chosen: the optimum of the last
\* column is finite, every element of index_path is a cell whose dp value and
\* column cost are finite, and no backward step reads a backtrace entry that
\* still holds the initial value
C20_InfiniteNeverChosen ==
    /\ (Swept /\ column_count > 0) => Less(get_optimal_score, INF)
    /\ AtBacktrace =>
          /\ IsSmall(v.index) /\ ToNat(v.index) < column_size(bt_i)
          /\ IsSmall(prev_inheritance_value)
          /\ ToNat(prev_inheritance_value) < transmission_configurations
          /\ \A b \in {get_backward_projection(bt_i, ToNat(v.index))} :
                /\ index_backtrace_table[bt_i - 1][b][ToNat(prev_inheritance_value)] # INF
                /\ transmission_backtrace_table[bt_i - 1][b][ToNat(prev_inheritance_value)]
                       # INF
    /\ (precomputed_partitioning = NULL /\ pc = "done" /\ column_count > 0) =>
          /\ PathInRange
          /\ \A ref \in {RefRun(recombcost)} : \A c \in Cols :
                LET idx == ToNat(index_path[c + 1].index)
                    inh == ToNat(index_path[c + 1].inheritance_value)
                IN  /\ Less(get_cost(c, idx, inh), INF)
                    /\ Less(DpColumn(c, IF c > 0 THEN ref[c].projection ELSE NULL)[idx][inh].min,
                            INF)

\* the same, for the runs in which recombcost stays far from the width of unsigned int
C20_InfiniteNeverChosenNoWrap ==
    (\A k \in DOMAIN recombcost : recombcost[k] # INF) => C20_InfiniteNeverChosen

\* the recovery loop of the backward sweep is about to call compute_column(bt_j)
AtRecovery == pc = "recover" /\ bt_j < bt_i

\* C21: a recovery of the backward sweep leaves the result of the forward sweep
\* alone: the column handed to compute_column is never the last one; on a
\* column whose tables are live the call changes nothing; and every call
\* leaves optimal_score, optimal_score_index, optimal_transmission_value,
\* previous_transmission_value and index_path as they were
C21_RecoveryKeepsForwardResult ==
    [][AtRecovery =>
          /\ bt_j < column_count - 1
          /\ optimum' = optimum
          /\ index_path' = index_path
          /\ projection_column_table[bt_j] # NULL =>
                 /\ pc' = "recover"
                 /\ UNCHANGED <<tables, heap, computed, input_column_iterator>>]_vars

\* a recovery has recomputed a column after a forward sweep that left a finite
\* optimum and seeded the path with a cell other than the initial one
C21_Witness ==
    /\ pc = "recover"
    /\ bt_j > 0
    /\ LiveColumn(bt_j - 1)
    /\ ~Checkpoint(bt_j - 1)
    /\ computed > column_count
    /\ Less(optimal_score, INF)
    /\ optimal_score # U(0)
    /\ index_path[column_count] # ZeroEntry

\* the constructor has computed column 0
FirstColumnComputed ==
    precomputed_partitioning = NULL /\ column_count > 0 /\ computed >= 1

\* C22: on column 0, for every partitioning index and inheritance pattern i,
\* every candidate is the current cost, dp_column[index, i] is
\* cost_computers[i].get_cost() and min_recomb_index[i] is 0
C22_FirstColumnIsCostAlone ==
    FirstColumnComputed =>
        \A idx \in 0 .. column_size(0) - 1, i \in InhRange :
            \A m \in {MinRecomb(0, idx, i, PreviousProjection(0), recombcost[1])} :
                /\ \A j \in InhRange :
                       Candidates(0, idx, i, PreviousProjection(0), recombcost[1])[j]
                           = get_cost(0, idx, i)
                /\ m.min = get_cost(0, idx, i)
                /\ m.min_index = 0

\* what column 0 holds instead while recombcost[0] stays far from the width of
\* unsigned int: the candidate of j is the current cost plus popcount(i xor j)
\* recombinations, dp_column[index, i] is the current cost, and
\* min_recomb_index[i] is i when the cost is finite and recombcost[0] is not 0
C22_FirstColumnNoWrap ==
    (FirstColumnComputed /\ recombcost[1] # INF) =>
        \A idx \in 0 .. column_size(0) - 1, i \in InhRange :
            \A m \in {MinRecomb(0, idx, i, PreviousProjection(0), recombcost[1])} :
                /\ m.min = get_cost(0, idx, i)
                /\ m.min_index =
                       IF Less(get_cost(0, idx, i), INF) /\ recombcost[1] # U(0)
                       THEN i ELSE 0
                /\ (pc \in {"forward", "backward", "recover", "done"}
                        /\ projection_column_table[0] # NULL) =>
                       ~Less(m.min, projection_column_table[0][get_forward_projection(0, idx)][i])

====
